---- MODULE Spec2Model ----
(***************************************************************************)
(* ESStore (src/index.js, lines 165-320): an express-session store kept    *)
(* in an elasticsearch index, with an in-process map of expiry timers.     *)
(*                                                                         *)
(* Storage keys and session ids are strings; they are modelled as          *)
(* sequences of one-character strings so that prefix + sid is \o.          *)
(* Every call of the elasticsearch client is a request in flight: the      *)
(* handler's synchronous part is one action, the index's handling of the   *)
(* request together with the handler's callback is another.                *)
(***************************************************************************)
EXTENDS Integers, Sequences, FiniteSets, TLC

\* ------------------------------------------------------------------ bounds
MaxTime == 3
MaxInflight == 2
MaxCalls == 3
\* the calls the session middleware makes when two stores run
MaxCallsTwo == 1

\* options.ttl, in clock ticks
TTL == 2

Stores == {1, 2}
Prefixes == {<< >>, <<"p">>}
Ids == {<<"a">>, <<"b">>}
\* the sessions the middleware writes; the others are idle: read, and expired
Served == {<<"a">>}
Payloads == {"P", "Q"}
MaxAges == {3}

\* ------------------------------------------------------------------ state
VARIABLES
  now,        \* new Date().getTime()
  built,      \* the ESStore instances that were constructed
  options,    \* options[s]: the options of store s
  es,         \* the index: storage key -> document
  timeouts,   \* timeouts[s]: storage key -> timer handle (this.timeouts)
  timers,     \* the armed timers of the event loop
  inflight,   \* client requests sent and not yet answered
  crashed,    \* stores whose process ended on an uncaught exception
  errlog,     \* what console.error printed
  calls,      \* how many calls the session middleware has made
  ev,         \* what the last step did (a call, a continuation, a firing)
  \* history, read by the properties only
  lastSet,    \* storage key -> the document of the last set that completed, while
              \* the caller has called neither set nor destroy for it since
  touched,    \* storage key -> when touch was last called on a stored, unexpired
              \* record, while the caller has not called destroy for it since
  doomed,     \* the armed timers that were pending when the caller called destroy
  gone        \* the storage keys a caller's destroy removed, until a set completes

vars == <<now, built, options, es, timeouts, timers, inflight, crashed, errlog, calls, ev, lastSet, touched, doomed, gone>>

\* ------------------------------------------------------------------ values
Undefined == [defined |-> FALSE]

NoBody == [k |-> "none"]

Cookies == [expires : {0}, originalMaxAge : MaxAges]

\* what the session middleware hands to set and touch
Sessions == [payload : Payloads, cookie : Cookies]

Put(f, k, v) == [x \in (DOMAIN f) \cup {k} |-> IF x = k THEN v ELSE f[x]]

Drop(f, k) == [x \in (DOMAIN f) \ {k} |-> f[x]]

\* ------------------------------------------------------------------ key codec
\* the sid first and the prefix after it
pSidSidFirst(s, sid) == sid \o options[s].prefix

\* the prefix alone: the sid is left out of the key
pSidNoSid(s, sid) == options[s].prefix

pSid(s, sid) == options[s].prefix \o sid

\* ------------------------------------------------------------------ the index
\* client.get: (e, r)
EsGet(id, fail) ==
  IF fail THEN [e |-> "Transport", r |-> Undefined]
  ELSE IF id \notin DOMAIN es THEN [e |-> "NotFound", r |-> [defined |-> TRUE, found |-> FALSE]]
  ELSE [e |-> "none", r |-> [defined |-> TRUE, found |-> TRUE, source |-> es[id]]]

\* client.index: full replace
EsIndex(id, body, fail) ==
  IF fail THEN [e |-> "Transport", es |-> es]
  ELSE [e |-> "none", es |-> Put(es, id, body)]

\* client.delete
EsDelete(id, fail) ==
  IF fail THEN [e |-> "Transport", r |-> Undefined, es |-> es]
  ELSE IF id \notin DOMAIN es THEN [e |-> "NotFound", r |-> [defined |-> TRUE, found |-> FALSE], es |-> es]
  ELSE [e |-> "none", r |-> [defined |-> TRUE, found |-> TRUE], es |-> Drop(es, id)]

\* an update that creates the document it does not find
EsUpdateUpsert(id, params, fail) ==
  IF fail THEN [e |-> "Transport", r |-> Undefined, es |-> es]
  ELSE IF id \notin DOMAIN es
  THEN [e |-> "none", r |-> [defined |-> TRUE, found |-> TRUE],
        es |-> Put(es, id, [payload |-> "P", timestamp |-> params.now,
                            cookie |-> [expires |-> params.now, originalMaxAge |-> 0]])]
  ELSE [e |-> "none", r |-> [defined |-> TRUE, found |-> TRUE],
        es |-> [es EXCEPT ![id].cookie.expires = params.now + es[id].cookie.originalMaxAge]]

\* an update whose script refreshes the write timestamp as well
EsUpdateStamp(id, params, fail) ==
  IF fail THEN [e |-> "Transport", r |-> Undefined, es |-> es]
  ELSE IF id \notin DOMAIN es THEN [e |-> "NotFound", r |-> [defined |-> TRUE, found |-> FALSE], es |-> es]
  ELSE [e |-> "none", r |-> [defined |-> TRUE, found |-> TRUE],
        es |-> [es EXCEPT ![id].cookie.expires = params.now + es[id].cookie.originalMaxAge,
                          ![id].timestamp = params.now]]

\* client.update with the inline script
\* ctx._source.cookie.expires = params.now + ctx._source.cookie.originalMaxAge
EsUpdate(id, params, fail) ==
  IF fail THEN [e |-> "Transport", r |-> Undefined, es |-> es]
  ELSE IF id \notin DOMAIN es THEN [e |-> "NotFound", r |-> [defined |-> TRUE, found |-> FALSE], es |-> es]
  ELSE [e |-> "none", r |-> [defined |-> TRUE, found |-> TRUE],
        es |-> [es EXCEPT ![id].cookie.expires = params.now + es[id].cookie.originalMaxAge]]

\* client.search, match_all, _source: false
EsSearch(fail) ==
  IF fail THEN [e |-> "Transport", r |-> Undefined]
  ELSE [e |-> "none", r |-> [defined |-> TRUE, hits |-> DOMAIN es]]

\* ------------------------------------------------------------------ timers
\* A timer handle is the armed timer itself: the store that armed it, the sid
\* its callback closes over, and the instant it is due.
\* a clearTimeout that leaves the timer armed
clearTimeoutNoop(tm, h) == tm

clearTimeout(tm, h) == tm \ {h}

setTimeout(s, sid, delay) == [self |-> s, sid |-> sid, due |-> now + delay]

\* ESStore.prototype.sessionTimeout, on the clock c = [timeouts, timers]
sessionTimeout(s, sid, c) ==
  LET key == pSid(s, sid)
      cleared == IF key \in DOMAIN c.timeouts[s] THEN clearTimeout(c.timers, c.timeouts[s][key]) ELSE c.timers
      h == setTimeout(s, sid, TTL)
  IN [timeouts |-> [c.timeouts EXCEPT ![s] = Put(@, key, h)],
      timers |-> cleared \cup {h}]

RECURSIVE forEachHit(_, _, _)
\* hits.forEach(function (hit) { self.sessionTimeout(hit._id) })
forEachHit(s, hits, c) ==
  IF hits = {} THEN c
  ELSE LET hit == CHOOSE x \in hits : TRUE
       IN forEachHit(s, hits \ {hit}, sessionTimeout(s, hit, c))

\* ------------------------------------------------------------------ requests
Request(s, op, sid, id, body, cb) == [self |-> s, op |-> op, sid |-> sid, id |-> id, body |-> body, cb |-> cb]

CanSend(req) == Cardinality(inflight) < MaxInflight /\ req \notin inflight

Running(s) == s \in built /\ s \notin crashed

\* the session middleware makes a call
Called == calls < (IF built = Stores THEN MaxCallsTwo ELSE MaxCalls) /\ calls' = calls + 1

Call(s, op, sid) == [type |-> "call", op |-> op, self |-> s, sid |-> sid]

Reply(req, outcome, called, err, val) ==
  [type |-> "reply", op |-> req.op, self |-> req.self, sid |-> req.sid, id |-> req.id, cb |-> req.cb,
   outcome |-> outcome, called |-> called, err |-> err, val |-> val]

\* ------------------------------------------------------------------ construction
\* the constructor's call of initialSessionTimeout: this.timeouts = {} and the search
SearchRequest(s) == Request(s, "search", << >>, << >>, NoBody, TRUE)

\* a document found at construction was written TTL ago: it is about to expire
InitStamps == {0 - TTL}

Docs == [payload : {"P"}, timestamp : InitStamps, cookie : Cookies]

InitWith(bs) ==
  /\ now = 0
  /\ built = bs
  /\ options \in [Stores -> [prefix : Prefixes]]
  /\ \A s \in Stores \ bs : options[s].prefix = << >>
  /\ \E ks \in SUBSET {options[s].prefix \o sid : s \in bs, sid \in Ids} : es \in [ks -> Docs]
  /\ timeouts = [s \in Stores |-> << >>]
  /\ timers = {}
  /\ inflight = {SearchRequest(s) : s \in bs}
  /\ crashed = {}
  /\ errlog = {}
  /\ calls = 0
  /\ ev = [type |-> "init"]
  /\ lastSet = << >>
  /\ touched = << >>
  /\ doomed = {}
  /\ gone = {}

Init == InitWith({1})

\* ------------------------------------------------------------------ get
Get(s, sid) ==
  LET req == Request(s, "get", sid, pSid(s, sid), NoBody, TRUE)
  IN /\ Running(s)
     /\ Called
     /\ CanSend(req)
     /\ inflight' = inflight \cup {req}
     /\ ev' = Call(s, "get", sid)
     /\ UNCHANGED <<now, built, options, es, timeouts, timers, crashed, errlog>>
     /\ UNCHANGED <<lastSet, touched, doomed, gone>>

\* get without the timestamp check
getCallbackNoTtl(e, r) ==
  IF e # "none" \/ ~r.defined
  THEN [err |-> "undefined", val |-> Undefined]
  ELSE [err |-> "null", val |-> [defined |-> TRUE, source |-> r.source]]

\* get handing the client's error to cb
getCallbackPassErr(e, r) ==
  IF e # "none" THEN [err |-> e, val |-> Undefined]
  ELSE IF ~r.defined \/ now - r.source.timestamp > TTL THEN [err |-> "undefined", val |-> Undefined]
  ELSE [err |-> "null", val |-> [defined |-> TRUE, source |-> r.source]]

\* the callback of get: what it passes to cb
getCallback(e, r) ==
  IF e # "none" \/ ~r.defined \/ now - r.source.timestamp > TTL
  THEN [err |-> "undefined", val |-> Undefined]
  ELSE [err |-> "null", val |-> [defined |-> TRUE, source |-> r.source]]

GetDone(req, fail) ==
  LET res == EsGet(req.id, fail)
      out == getCallback(res.e, res.r)
  IN /\ req \in inflight /\ req.op = "get"
     /\ inflight' = inflight \ {req}
     /\ ev' = IF Running(req.self) THEN Reply(req, res.e, TRUE, out.err, out.val)
              ELSE Reply(req, res.e, FALSE, "undefined", Undefined)
     /\ UNCHANGED <<now, built, options, es, timeouts, timers, crashed, errlog, calls>>
     /\ UNCHANGED <<lastSet, touched, doomed, gone>>

\* ------------------------------------------------------------------ set
Stamped(sess) == [payload |-> sess.payload, timestamp |-> now, cookie |-> sess.cookie]

Set(s, sid, sess) ==
  LET req == Request(s, "index", sid, pSid(s, sid), Stamped(sess), TRUE)
  IN /\ Running(s)
     /\ Called
     /\ CanSend(req)
     /\ inflight' = inflight \cup {req}
     /\ ev' = Call(s, "set", sid)
     /\ lastSet' = Drop(lastSet, req.id)
     /\ UNCHANGED <<now, built, options, es, timeouts, timers, crashed, errlog>>
     /\ UNCHANGED <<touched, doomed, gone>>

\* set calling cb() whatever the client answered
setCallbackSwallow(e) == [err |-> "undefined", val |-> Undefined]

\* the callback of set: cb(e)
setCallback(e) == [err |-> IF e = "none" THEN "undefined" ELSE e, val |-> Undefined]

SetDone(req, fail) ==
  LET res == EsIndex(req.id, req.body, fail)
      out == setCallback(res.e)
  IN /\ req \in inflight /\ req.op = "index"
     /\ inflight' = inflight \ {req}
     /\ es' = res.es
     /\ ev' = Reply(req, res.e, Running(req.self) /\ req.cb, out.err, out.val)
     /\ lastSet' = IF res.e = "none" /\ Running(req.self) THEN Put(lastSet, req.id, req.body) ELSE lastSet
     /\ gone' = IF res.e = "none" THEN gone \ {req.id} ELSE gone
     /\ UNCHANGED <<now, built, options, timeouts, timers, crashed, errlog, calls>>
     /\ UNCHANGED <<touched, doomed>>

\* ------------------------------------------------------------------ destroy
\* the request destroy sends; cb is absent when the expiry timer calls it
destroy(s, sid, cb) == Request(s, "delete", sid, pSid(s, sid), NoBody, cb)

Destroy(s, sid) ==
  LET req == destroy(s, sid, TRUE)
  IN /\ Running(s)
     /\ Called
     /\ CanSend(req)
     /\ inflight' = inflight \cup {req}
     /\ ev' = Call(s, "destroy", sid)
     /\ lastSet' = Drop(lastSet, req.id)
     /\ touched' = Drop(touched, req.id)
     /\ doomed' = doomed \cup {t \in timers : t.self = s /\ t.sid = sid}
     /\ UNCHANGED <<now, built, options, es, timeouts, timers, crashed, errlog>>
     /\ UNCHANGED gone

\* the callback of destroy and of touch: cb(e, r)
passCallback(e, r) == [err |-> IF e = "none" THEN "undefined" ELSE e, val |-> r]

\* a callback that calls cb(e, r) without looking at what cb is: the timer's
\* destroy passes none, and the call throws
DestroyDoneThrow(req, fail) ==
  LET res == EsDelete(req.id, fail)
      out == passCallback(res.e, res.r)
  IN /\ req \in inflight /\ req.op = "delete"
     /\ inflight' = inflight \ {req}
     /\ es' = res.es
     /\ ev' = IF Running(req.self) /\ req.cb THEN Reply(req, res.e, TRUE, out.err, out.val)
              ELSE Reply(req, res.e, FALSE, "undefined", Undefined)
     /\ crashed' = IF req.cb THEN crashed ELSE crashed \cup {req.self}
     /\ timers' = IF req.cb THEN timers ELSE {t \in timers : t.self # req.self}
     /\ doomed' = doomed \cap timers'
     /\ lastSet' = IF req.cb THEN Drop(lastSet, req.id) ELSE lastSet
     /\ touched' = IF req.cb THEN Drop(touched, req.id) ELSE touched
     /\ gone' = IF req.cb /\ res.e = "none" /\ Running(req.self) THEN gone \cup {req.id} ELSE gone
     /\ UNCHANGED <<now, built, options, timeouts, errlog, calls>>

DestroyDone(req, fail) ==
  LET res == EsDelete(req.id, fail)
      out == passCallback(res.e, res.r)
  IN /\ req \in inflight /\ req.op = "delete"
     /\ inflight' = inflight \ {req}
     /\ es' = res.es
     /\ ev' = IF Running(req.self) /\ req.cb THEN Reply(req, res.e, TRUE, out.err, out.val)
              ELSE Reply(req, res.e, FALSE, "undefined", Undefined)
     /\ lastSet' = IF req.cb THEN Drop(lastSet, req.id) ELSE lastSet
     /\ touched' = IF req.cb THEN Drop(touched, req.id) ELSE touched
     /\ gone' = IF req.cb /\ res.e = "none" /\ Running(req.self) THEN gone \cup {req.id} ELSE gone
     /\ UNCHANGED <<now, built, options, timeouts, timers, crashed, errlog, calls>>
     /\ UNCHANGED doomed

\* ------------------------------------------------------------------ touch
\* touch that sends the update and leaves the timers alone
TouchNoArm(s, sid, sess) ==
  LET req == Request(s, "update", sid, pSid(s, sid), [now |-> now], TRUE)
  IN /\ Running(s)
     /\ Called
     /\ CanSend(req)
     /\ inflight' = inflight \cup {req}
     /\ ev' = Call(s, "touch", sid)
     /\ touched' = IF req.id \in DOMAIN es /\ now - es[req.id].timestamp <= TTL
                   THEN Put(touched, req.id, now) ELSE touched
     /\ UNCHANGED <<now, built, options, es, timeouts, timers, crashed, errlog>>
     /\ UNCHANGED <<lastSet, doomed, gone>>

Touch(s, sid, sess) ==
  LET c == sessionTimeout(s, sid, [timeouts |-> timeouts, timers |-> timers])
      req == Request(s, "update", sid, pSid(s, sid), [now |-> now], TRUE)
  IN /\ Running(s)
     /\ Called
     /\ CanSend(req)
     /\ timeouts' = c.timeouts
     /\ timers' = c.timers
     /\ inflight' = inflight \cup {req}
     /\ ev' = Call(s, "touch", sid)
     /\ touched' = IF req.id \in DOMAIN es /\ now - es[req.id].timestamp <= TTL
                   THEN Put(touched, req.id, now) ELSE touched
     /\ doomed' = (doomed \cap c.timers) \ {setTimeout(s, sid, TTL)}
     /\ UNCHANGED <<now, built, options, es, crashed, errlog>>
     /\ UNCHANGED <<lastSet, gone>>

TouchDone(req, fail) ==
  LET res == EsUpdate(req.id, req.body, fail)
      out == passCallback(res.e, res.r)
  IN /\ req \in inflight /\ req.op = "update"
     /\ inflight' = inflight \ {req}
     /\ es' = res.es
     /\ ev' = IF Running(req.self) /\ req.cb THEN Reply(req, res.e, TRUE, out.err, out.val)
              ELSE Reply(req, res.e, FALSE, "undefined", Undefined)
     /\ UNCHANGED <<now, built, options, timeouts, timers, crashed, errlog, calls>>
     /\ UNCHANGED <<lastSet, touched, doomed, gone>>

\* ------------------------------------------------------------------ recovery scan
\* the callback of the search: after console.error(e) it reads r.hits.hits, and
\* r is undefined when the search failed, so the read throws out of the callback
searchThrows(r) == ~r.defined

SearchDone(req, fail) ==
  LET s == req.self
      res == EsSearch(fail)
      c == forEachHit(s, res.r.hits, [timeouts |-> timeouts, timers |-> timers])
  IN /\ req \in inflight /\ req.op = "search"
     /\ Running(s)
     /\ inflight' = inflight \ {req}
     /\ errlog' = IF res.e # "none" THEN errlog \cup {[self |-> s, e |-> res.e]} ELSE errlog
     /\ IF searchThrows(res.r)
        THEN /\ crashed' = crashed \cup {s}
             /\ timers' = {t \in timers : t.self # s}
             /\ timeouts' = timeouts
        ELSE /\ crashed' = crashed
             /\ timers' = c.timers
             /\ timeouts' = c.timeouts
     /\ ev' = Reply(req, res.e, TRUE, res.e, res.r)
     /\ doomed' = IF searchThrows(res.r) THEN doomed \cap timers'
                  ELSE (doomed \cap timers') \ {setTimeout(s, hit, TTL) : hit \in res.r.hits}
     /\ UNCHANGED <<now, built, options, es, calls>>
     /\ UNCHANGED <<lastSet, touched, gone>>

\* ------------------------------------------------------------------ timers firing
\* function () { self.destroy(sid) }
Fire(t) ==
  LET req == destroy(t.self, t.sid, FALSE)
  IN /\ t \in timers
     /\ t.due <= now
     /\ Cardinality(inflight) < MaxInflight
     /\ timers' = timers \ {t}
     /\ inflight' = inflight \cup {req}
     /\ ev' = [type |-> "fire", self |-> t.self, sid |-> t.sid, due |-> t.due, doomed |-> t \in doomed]
     /\ doomed' = doomed \ {t}
     /\ UNCHANGED <<now, built, options, es, timeouts, crashed, errlog, calls>>
     /\ UNCHANGED <<lastSet, touched, gone>>

\* time passes; a timer that is due fires, and a request sent is answered,
\* before the clock moves on (a tick is TTL / 2, far longer than a round trip)
Tick ==
  /\ now < MaxTime
  /\ inflight = {}
  /\ \A t \in timers : t.due > now
  /\ now' = now + 1
  /\ ev' = [type |-> "tick"]
  /\ UNCHANGED <<built, options, es, timeouts, timers, inflight, crashed, errlog, calls>>
  /\ UNCHANGED <<lastSet, touched, doomed, gone>>

\* ------------------------------------------------------------------ specification
Next ==
  \/ \E s \in Stores, sid \in Ids : Get(s, sid)
  \/ \E s \in Stores, sid \in Served, sess \in Sessions : Set(s, sid, sess)
  \/ \E s \in Stores, sid \in Served : Destroy(s, sid)
  \/ \E s \in Stores, sid \in Served, sess \in Sessions : Touch(s, sid, sess)
  \/ \E req \in inflight, fail \in BOOLEAN : GetDone(req, fail)
  \/ \E req \in inflight, fail \in BOOLEAN : SetDone(req, fail)
  \/ \E req \in inflight, fail \in BOOLEAN : DestroyDone(req, fail)
  \/ \E req \in inflight, fail \in BOOLEAN : TouchDone(req, fail)
  \/ \E req \in inflight, fail \in BOOLEAN : SearchDone(req, fail)
  \/ \E t \in timers : Fire(t)
  \/ Tick

Spec == Init /\ [][Next]_vars

\* two instances of one application: the same options, each its own timer
\* map, on one index
InitTwo == InitWith(Stores) /\ \A s \in Stores : options[s] = options[1]

SpecTwo == InitTwo /\ [][Next]_vars

\* ------------------------------------------------------------------ the key codec alone
\* prefixes and ids that share characters
CodecPrefixes == {<< >>, <<"p">>, <<"q">>, <<"p", "p">>}

CodecIds == {<<"a">>, <<"b">>, <<"p", "a">>, <<"q", "a">>}

\* two stores on an empty index, their scans answered
CodecInit ==
  /\ now = 0
  /\ built = Stores
  /\ options \in [Stores -> [prefix : CodecPrefixes]]
  /\ es = << >>
  /\ timeouts = [s \in Stores |-> << >>]
  /\ timers = {}
  /\ inflight = {}
  /\ crashed = {}
  /\ errlog = {}
  /\ calls = 0
  /\ ev = [type |-> "init"]
  /\ lastSet = << >>
  /\ touched = << >>
  /\ doomed = {}
  /\ gone = {}

\* one call of pSid; prev keeps the call before it, for comparing the two
Encode(s, sid) ==
  /\ s \in built
  /\ ev' = [type |-> "encode", self |-> s, sid |-> sid, key |-> pSid(s, sid),
            prev |-> IF ev.type = "encode"
                     THEN <<[self |-> ev.self, sid |-> ev.sid, key |-> ev.key]>>
                     ELSE << >>]
  /\ UNCHANGED <<now, built, options, es, timeouts, timers, inflight, crashed, errlog, calls>>
  /\ UNCHANGED <<lastSet, touched, doomed, gone>>

CodecNext == \E s \in Stores, sid \in CodecIds : Encode(s, sid)

CodecSpec == CodecInit /\ [][CodecNext]_vars

\* ------------------------------------------------------------------ properties
GetReply == ev.type = "reply" /\ ev.op = "get" /\ ev.called

\* C1: a get answered less than TTL after a completed set(id, P), with no
\* set or destroy of the caller on id in between and no transport failure of
\* the fetch, reports P.
RoundTrip ==
  (GetReply /\ ev.outcome # "Transport" /\ ev.id \in DOMAIN lastSet
     /\ now - lastSet[ev.id].timestamp < TTL)
  => (ev.val.defined /\ ev.val.source.payload = lastSet[ev.id].payload)

\* C2: a get answered less than TTL after touch was called on a stored,
\* unexpired record reports a record, however old the record's last set is.
TouchExtends ==
  (GetReply /\ ev.outcome # "Transport" /\ ev.id \in DOMAIN touched
     /\ now < touched[ev.id] + TTL)
  => ev.val.defined

\* C3: get reports a record only when that record is in the index and
\* now - its write timestamp <= TTL; a record older than TTL is reported absent.
PassiveExpiry ==
  GetReply =>
    /\ ev.val.defined => (/\ ev.id \in DOMAIN es
                          /\ ev.val.source = es[ev.id]
                          /\ now - es[ev.id].timestamp <= TTL)
    /\ (ev.id \in DOMAIN es /\ now - es[ev.id].timestamp > TTL) => ~ev.val.defined

\* a get answered "absent" for a record that is in the index, older than TTL,
\* while the timer map of the store is empty
PassiveExpiryWitness ==
  /\ GetReply /\ ev.outcome = "none"
  /\ ev.id \in DOMAIN es /\ now - es[ev.id].timestamp > TTL
  /\ ~ev.val.defined
  /\ timers = {}

\* C4: when set reports success, an armed timer for the id's storage key is
\* due TTL after the set's write timestamp.
SetArmsTimer ==
  (ev.type = "reply" /\ ev.op = "index" /\ ev.called /\ ev.err = "undefined")
  => \E t \in timers : /\ t.self = ev.self
                       /\ pSid(t.self, t.sid) = ev.id
                       /\ t.due = es[ev.id].timestamp + TTL

\* C5: a timer that was pending when the caller called destroy for its id
\* never fires.
DestroyCancels == ev.type = "fire" => ~ev.doomed

\* C6: from a destroy that reported success until a set of the same id
\* completes, get reports absent.
DestroyedStaysAbsent == (GetReply /\ ev.id \in gone) => ~ev.val.defined

\* a get answered after a successful destroy of its id and a later touch
DestroyedStaysAbsentWitness ==
  /\ GetReply /\ ev.outcome = "NotFound" /\ ev.id \in gone
  /\ \E t \in timers : pSid(t.self, t.sid) = ev.id /\ t.due = now + TTL

\* C7: when the recovery scan has succeeded, every record it found has exactly
\* one armed timer of the store, registered under the record's storage key.
RecoveryTimers ==
  (ev.type = "reply" /\ ev.op = "search" /\ ev.outcome = "none")
  => \A k \in ev.val.hits :
       /\ Cardinality({t \in timers : t.self = ev.self /\ pSid(t.self, t.sid) = k}) = 1
       /\ k \in DOMAIN timeouts[ev.self]
       /\ timeouts[ev.self][k] \in timers

\* C8: with no call of the caller, once the destroy of a timer armed by the
\* recovery scan for record k is answered without a transport failure, k is
\* no longer in the index.
SelfClean ==
  (ev.type = "reply" /\ ev.op = "delete" /\ ~ev.cb /\ calls = 0 /\ ev.outcome # "Transport")
  => ev.sid \notin DOMAIN es

\* C9: a recovery scan that fails is logged and leaves the store running.
ScanFailureNonFatal ==
  (ev.type = "reply" /\ ev.op = "search" /\ ev.outcome # "none")
  => ([self |-> ev.self, e |-> ev.outcome] \in errlog /\ ev.self \notin crashed)

\* C10: when the fetch of a get fails (not found, or a transport failure),
\* get calls its continuation with no error and no record, and the step
\* changes neither the index nor the timer map nor the armed timers.
ReadErrorsAbsorbed ==
  [][(ev'.type = "reply" /\ ev'.op = "get" /\ ev'.called /\ ev'.outcome # "none")
     => (/\ ev'.err = "undefined"
         /\ ~ev'.val.defined
         /\ es' = es
         /\ timeouts' = timeouts
         /\ timers' = timers)]_vars

\* a get whose fetch failed in transport while its record is in the index
ReadErrorsAbsorbedWitness ==
  /\ GetReply /\ ev.outcome = "Transport"
  /\ ev.id \in DOMAIN es /\ now - es[ev.id].timestamp <= TTL

\* C11: when the index, delete or update call of a running store's set,
\* destroy or touch is answered, the caller's continuation is called in that
\* step with the client's error if the call failed and with no error if it
\* succeeded, and nothing is thrown.
WriteErrorsSurfaced ==
  [][(ev'.type = "reply" /\ ev'.op \in {"index", "delete", "update"} /\ ev'.cb /\ Running(ev'.self))
     => (/\ ev'.called
         /\ ev'.err = (IF ev'.outcome = "none" THEN "undefined" ELSE ev'.outcome)
         /\ crashed' = crashed)]_vars

\* touch has reported the transport failure of its update, its timer pending
WriteErrorsSurfacedWitness ==
  /\ ev.type = "reply" /\ ev.op = "update" /\ ev.called /\ ev.err = "Transport"
  /\ \E t \in timers : t.self = ev.self /\ t.sid = ev.sid

\* C12: for an id that no set writes, a storage key that is absent from the
\* index stays absent through every step (the operations on other ids
\* included), and a get answered while it is absent reports absent.
NeverWrittenAbsent ==
  [][\A s \in built, sid \in Ids \ Served :
       pSid(s, sid) \notin DOMAIN es =>
         /\ pSid(s, sid) \notin DOMAIN es'
         /\ (ev'.type = "reply" /\ ev'.op = "get" /\ ev'.called /\ ev'.self = s /\ ev'.sid = sid)
              => ~ev'.val.defined]_vars

\* a get of the id that was never written, answered after a set and a touch of
\* another id, whose record is in the index
NeverWrittenAbsentWitness ==
  /\ GetReply /\ ev.sid \notin Served /\ ev.outcome = "NotFound"
  /\ \E k \in DOMAIN lastSet : k \in DOMAIN es /\ k \in DOMAIN timeouts[ev.self]

TimersOf(s, k) == {t \in timers : t.self = s /\ pSid(s, t.sid) = k}

\* C13: a store has at most one armed timer per storage key; right after
\* touch or the recovery scan has scheduled a key (whatever was scheduled for
\* it before), exactly one timer is armed for it, due TTL later.
OneTimerPerKey ==
  /\ \A s \in built : \A k \in DOMAIN timeouts[s] : Cardinality(TimersOf(s, k)) <= 1
  /\ \A t \in timers : pSid(t.self, t.sid) \in DOMAIN timeouts[t.self]
  /\ (ev.type = "call" /\ ev.op = "touch")
       => TimersOf(ev.self, pSid(ev.self, ev.sid)) = {setTimeout(ev.self, ev.sid, TTL)}
  /\ (ev.type = "reply" /\ ev.op = "search" /\ ev.outcome = "none")
       => \A hit \in ev.val.hits :
            TimersOf(ev.self, pSid(ev.self, hit)) = {setTimeout(ev.self, hit, TTL)}

\* touch called a tick after the recovery scan armed a timer for the same key
OneTimerPerKeyWitness ==
  /\ ev.type = "call" /\ ev.op = "touch" /\ now = 1
  /\ options[ev.self].prefix = << >>
  /\ pSid(ev.self, ev.sid) \in DOMAIN es
  /\ errlog = {} /\ inflight = {Request(ev.self, "update", ev.sid, pSid(ev.self, ev.sid), [now |-> now], TRUE)}
  /\ calls = 1

\* C14: a record that the destroy of an expiry timer removes is at least TTL
\* old (a timer fires TTL after it was armed, so a younger record was written
\* by a set after the timer was armed).
TimerSparesFresh ==
  [][(ev'.type = "reply" /\ ev'.op = "delete" /\ ~ev'.cb /\ ev'.outcome = "none")
     => now - es[ev'.id].timestamp >= TTL]_vars

\* C15: right after touch is called the store has a timer for the id armed,
\* due TTL later, and the update in flight; when the update is answered,
\* whatever the answer, that timer is still armed and the continuation gets
\* the update's outcome.
TouchRearms ==
  /\ (ev.type = "call" /\ ev.op = "touch")
       => /\ setTimeout(ev.self, ev.sid, TTL) \in timers
          /\ timeouts[ev.self][pSid(ev.self, ev.sid)] = setTimeout(ev.self, ev.sid, TTL)
          /\ \E req \in inflight : req.op = "update" /\ req.self = ev.self /\ req.sid = ev.sid
  /\ (ev.type = "reply" /\ ev.op = "update" /\ ev.called)
       => /\ setTimeout(ev.self, ev.sid, TTL) \in timers
          /\ ev.err = (IF ev.outcome = "none" THEN "undefined" ELSE ev.outcome)
          /\ ev.val.defined = (ev.outcome # "Transport")

\* touch of an id without record: the update is answered "not found"
TouchRearmsWitness ==
  /\ ev.type = "reply" /\ ev.op = "update" /\ ev.called /\ ev.outcome = "NotFound"
  /\ setTimeout(ev.self, ev.sid, TTL) \in timers
  /\ es = << >>

\* C16: when a timer fires, the timer map has no entry for its key.
FiredEntryRemoved == ev.type = "fire" => pSid(ev.self, ev.sid) \notin DOMAIN timeouts[ev.self]

\* C17: the update of touch, when it succeeds, sets cookie.expires of the
\* record to now + cookie.originalMaxAge and leaves its payload, its write
\* timestamp, its originalMaxAge and every other record as they were; when it
\* fails (the record is absent, or the transport failed) the index is unchanged.
TouchFrame ==
  [][(ev'.type = "reply" /\ ev'.op = "update")
     => IF ev'.outcome = "none"
        THEN /\ DOMAIN es' = DOMAIN es
             /\ \A k \in DOMAIN es \ {ev'.id} : es'[k] = es[k]
             /\ es'[ev'.id].payload = es[ev'.id].payload
             /\ es'[ev'.id].timestamp = es[ev'.id].timestamp
             /\ es'[ev'.id].cookie.originalMaxAge = es[ev'.id].cookie.originalMaxAge
             /\ es'[ev'.id].cookie.expires = now + es[ev'.id].cookie.originalMaxAge
        ELSE es' = es]_vars

\* a successful touch, a tick after the record was set, beside another record
TouchFrameWitness ==
  /\ ev.type = "reply" /\ ev.op = "update" /\ ev.outcome = "none"
  /\ Cardinality(DOMAIN es) = 2
  /\ es[ev.id].timestamp = now - 1
  /\ es[ev.id].cookie.expires = now + es[ev.id].cookie.originalMaxAge

\* C18: with two stores on one index, each with its own timer map, a removal
\* that finds its record already removed (by the other store's timer, in any
\* order of the two) changes no stored record, stops neither store and logs
\* nothing; the timer's own removal reports to nobody, and a caller's removal
\* hands the not-found error to its callback and nothing else
IdempotentRemove ==
  [][(ev'.type = "reply" /\ ev'.op = "delete" /\ ev'.id \notin DOMAIN es /\ ev'.outcome # "Transport")
       => (/\ ev'.outcome = "NotFound"
           /\ es' = es
           /\ crashed' = crashed
           /\ errlog' = errlog
           /\ timers' = timers
           /\ timeouts' = timeouts
           /\ ev'.called = (ev'.cb /\ Running(ev'.self))
           /\ ev'.called => (ev'.err = "NotFound" /\ ev'.val = [defined |-> TRUE, found |-> FALSE]))]_vars

\* both stores' recovery timers have fired on one key and no caller has acted:
\* the removal that came second found the record removed by the first
IdempotentRemoveWitness ==
  /\ ev.type = "reply" /\ ev.op = "delete" /\ ~ev.cb /\ ev.outcome = "NotFound"
  /\ built = Stores /\ crashed = {} /\ calls = 0
  /\ \A s \in Stores : pSid(s, ev.sid) = ev.id /\ ev.id \in DOMAIN timeouts[s]
  /\ \A t \in timers : t.sid # ev.sid
  /\ \A r \in inflight : r.id # ev.id

\* the two calls of pSid a state compares
Encoded == ev.type = "encode" /\ ev.prev # << >>

IsPrefix(p, q) == Len(p) <= Len(q) /\ SubSeq(q, 1, Len(p)) = p

\* C19 as stated: the key is the prefix followed by the id; one store gives
\* distinct ids distinct keys; two stores whose prefixes differ never give the
\* same key, whatever the two ids
CollisionFree ==
  Encoded =>
    LET p == ev.prev[1]
    IN /\ ev.key = options[ev.self].prefix \o ev.sid
       /\ (p.self = ev.self /\ p.sid # ev.sid) => p.key # ev.key
       /\ (p.self # ev.self /\ options[p.self].prefix # options[ev.self].prefix) => p.key # ev.key

\* C19, amended: the key is the prefix followed by the id; one store gives
\* distinct ids distinct keys; two stores give distinct keys to any two ids
\* when neither store's prefix begins with the other's
KeyCodec ==
  Encoded =>
    LET p == ev.prev[1]
    IN /\ ev.key = options[ev.self].prefix \o ev.sid
       /\ (p.self = ev.self /\ p.sid = ev.sid) => p.key = ev.key
       /\ (p.self = ev.self /\ p.sid # ev.sid) => p.key # ev.key
       /\ (/\ p.self # ev.self
           /\ ~IsPrefix(options[p.self].prefix, options[ev.self].prefix)
           /\ ~IsPrefix(options[ev.self].prefix, options[p.self].prefix)) => p.key # ev.key

\* stores with prefixes "p" and "q" have encoded the ids "qa" and "pa": the
\* keys "pqa" and "qpa" differ
KeyCodecWitness ==
  /\ Encoded
  /\ options[1].prefix = <<"p">> /\ options[2].prefix = <<"q">>
  /\ ev.prev[1].self = 1 /\ ev.prev[1].sid = <<"q", "a">> /\ ev.prev[1].key = <<"p", "q", "a">>
  /\ ev.self = 2 /\ ev.sid = <<"p", "a">> /\ ev.key = <<"q", "p", "a">>

====
